---- MODULE Spec2Model ----
(***************************************************************************)
(* A model of the router of src/rust/src/router.rs: the three routing      *)
(* policies, the cache-aware policy step with its four mutexes, the        *)
(* upstream proxying (buffered and streaming) with the pending-request     *)
(* counters, the constructor's bootstrap inserts and the background        *)
(* eviction thread.  crate::tree::Tree is not part of the sources at hand; *)
(* its operations are modelled from their description in spec.md.          *)
(***************************************************************************)
EXTENDS Integers, Sequences, FiniteSets, TLC

(***************************************************************************)
(* Bounds of the model.                                                    *)
(***************************************************************************)
\* number of dispatch calls (each runs once, concurrently with the others)
MaxReq == 2
\* total number of chunks the upstreams deliver over all response streams
MaxChunks == 2
\* longest request text, in characters
MaxTextLen == 2
\* the configured fairness_fill_size
FillSize == 2
\* the configured max_tree_size
TreeSize == 2
\* dispatch calls overall, where finished calls are followed by new ones
MaxCalls == 4
\* longest request text of such a series of calls, in characters
MaxSeriesLen == 3

(***************************************************************************)
(* Threads and locks.                                                      *)
(***************************************************************************)
Reqs == 1..MaxReq
\* owner ids of the mutexes: a dispatch is its request number
Free == 0
Evictor == MaxReq + 1
\* a mutex whose holder panicked: not held, and every lock().unwrap() on it panics
Poisoned == -1

LockNames == {"tree", "running", "fairness", "processed"}

NoWorker == "none"
NoUser == "none"

(***************************************************************************)
(* Request bodies.  A body is either not JSON, or a JSON object with the   *)
(* fields the router reads: text, user (NoUser: absent) and stream.        *)
(***************************************************************************)
\* the texts of at most MaxTextLen characters over an alphabet
PromptsOver(alphabet) == UNION {[1..k -> alphabet] : k \in 0..MaxTextLen}

Prompts == PromptsOver({"a"})

Bodies ==
    [valid : {TRUE}, text : Prompts, user : {NoUser, "u1"}, stream : BOOLEAN]
    \cup [valid : {FALSE}, text : {<<>>}, user : {NoUser}, stream : {FALSE}]

\* bodies for the policy step alone: texts that branch, no streaming
PolicyBodies ==
    [valid : {TRUE}, text : PromptsOver({"a", "b"}), user : {NoUser, "u1"},
     stream : {FALSE}]

\* bodies of one text, the longest, buffered or streaming
ThreadBodies ==
    [valid : {TRUE}, text : {[i \in 1..MaxTextLen |-> "a"]}, user : {NoUser},
     stream : BOOLEAN]

Routes == {"generate", "other"}

\* get_text_from_request, for a body that parsed (the unwrap of line 109 is
\* in Receive): the "text" field on route generate, "" on an unknown route
get_text_from_request(body, route) ==
    IF route = "generate" THEN body.text ELSE <<>>

get_uid_from_body(body) ==
    IF body.valid /\ body.user # NoUser THEN body.user ELSE "default_uid"

\* the user ids the bodies lead to
Users == {"default_uid", "u1"}

\* the record kept per user of its last selections in fairness mode: the
\* worker selected last, the text length d of that selection, the number n of
\* selections of this worker with this d in a row since the last refill of
\* the user's row, and the text lengths of all its selections so far
NoStreak == [worker |-> NoWorker, d |-> 0, n |-> 0, lens |-> {}]

\* line 404-406: the "stream" field, false when the body is not JSON
IsStream(body) == body.valid /\ body.stream

(***************************************************************************)
(* Response chunks are byte sequences; the sentinel is `data: [DONE]`.     *)
(***************************************************************************)
SentinelLen == 12

Sentinel == <<100, 97, 116, 97, 58, 32, 91, 68, 79, 78, 69, 93>>

\* bytes.windows(12).any(|window| window == b"data: [DONE]")
ContainsSentinel(bytes) ==
    \E i \in 1..(Len(bytes) - SentinelLen + 1) :
        SubSeq(bytes, i, i + SentinelLen - 1) = Sentinel

\* the chunks an upstream may deliver: the sentinel whole, and its two halves
Chunks == {Sentinel, SubSeq(Sentinel, 1, 6), SubSeq(Sentinel, 7, 12)}

(***************************************************************************)
(* The approximate prefix tree, as the set of its tenant marks: <<p, w>>   *)
(* says that the node reached by the characters p carries tenant w.        *)
(***************************************************************************)
Prefix(text, k) == SubSeq(text, 1, k)

IsPrefix(p, text) == Len(p) <= Len(text) /\ Prefix(text, Len(p)) = p

\* insert(text, worker): worker becomes a tenant of every node on the path
TreeInsert(t, text, w) == t \cup {<<Prefix(text, k), w>> : k \in 0..Len(text)}

\* prefix_match_tenant(text, worker): the longest prefix of text along which
\* worker is a tenant of every node
prefix_match_tenant(t, text, w) ==
    LET ks == {k \in 0..Len(text) : \A j \in 0..k : <<Prefix(text, j), w>> \in t}
    IN  IF ks = {} THEN <<>>
        ELSE Prefix(text, CHOOSE k \in ks : \A j \in ks : j <= k)

TreeNodes(t) == {e[1] : e \in t}

TreeTenants(t, p) == {e[2] : e \in {x \in t : x[1] = p}}

\* the order of worker URLs as strings
UrlOrder == <<"A", "B", "C">>

UrlRank(w) == CHOOSE i \in 1..Len(UrlOrder) : UrlOrder[i] = w

MinUrl(ws) == CHOOSE w \in ws : \A v \in ws : UrlRank(w) <= UrlRank(v)

\* prefix_match(text): the deepest node on text's path and one tenant of it
\* (the first in URL order); with no bootstrap node, "" and no worker
prefix_match(t, text) ==
    LET ks == {k \in 0..Len(text) : \A j \in 0..k : Prefix(text, j) \in TreeNodes(t)}
    IN  IF ks = {} THEN <<(<<>>), NoWorker>>
        ELSE LET k == CHOOSE x \in ks : \A j \in ks : j <= x
             IN  <<Prefix(text, k), MinUrl(TreeTenants(t, Prefix(text, k)))>>

OwnedNodes(t, w) == Cardinality({e \in t : e[2] = w})

\* get_smallest_tenant(): the tenant owning the fewest nodes, ties by URL
get_smallest_tenant(t) ==
    LET ws == {e[2] : e \in t}
    IN  IF ws = {} THEN NoWorker
        ELSE MinUrl({w \in ws : \A v \in ws : OwnedNodes(t, w) <= OwnedNodes(t, v)})

TreeLeaves(t) ==
    {p \in TreeNodes(t) :
        /\ p # <<>>
        /\ \A q \in TreeNodes(t) : ~(Len(q) > Len(p) /\ IsPrefix(p, q))}

RECURSIVE EvictOutcomes(_, _)
\* evict_tenant_data(max_tree_size): while the tree has more nodes than the
\* bound, a leaf is removed (which leaf is the least recently used is not
\* tracked: every choice of leaf is an outcome); the root is never removed
EvictOutcomes(t, max) ==
    IF Cardinality(TreeNodes(t)) <= max \/ TreeLeaves(t) = {}
    THEN {t}
    ELSE UNION {EvictOutcomes({e \in t : e[1] # p}, max) : p \in TreeLeaves(t)}

(***************************************************************************)
(* Configurations (the fields of Router that never change).  Floats are    *)
(* kept as fractions <<numerator, denominator>>.                           *)
(***************************************************************************)
FracLt(a, b) == a[1] * b[2] < b[1] * a[2]

\* a variant that also accepts a rate equal to the threshold
RateAtLeast(m, n, threshold) == n # 0 /\ m * threshold[2] >= threshold[1] * n

\* matched_rate > cache_threshold, with matched_rate = m / n in f32: for n = 0
\* (so m = 0) the rate is NaN and the comparison is false
RateAbove(m, n, threshold) == n # 0 /\ m * threshold[2] > threshold[1] * n

Perms(S) == {s \in [1..Cardinality(S) -> S] : \A w \in S : \E i \in DOMAIN s : s[i] = w}

Range(s) == {s[i] : i \in DOMAIN s}

CacheAwareConfigs(lists) ==
    [policy : {"CacheAware"}, worker_urls : lists,
     cache_threshold : {<<1, 2>>}, cache_routing_prob : {<<1, 2>>},
     max_tree_size : {TreeSize}, enable_fairness : BOOLEAN,
     fairness_fill_size : {FillSize}]

SimpleConfigs(lists) ==
    [policy : {"RoundRobin", "Random"}, worker_urls : lists,
     cache_threshold : {<<0, 1>>}, cache_routing_prob : {<<0, 1>>},
     max_tree_size : {TreeSize}, enable_fairness : {FALSE},
     fairness_fill_size : {FillSize}]

\* the values rand::random::<f32>() is drawn from
SampledPs == {<<0, 2>>, <<1, 2>>}

VARIABLES
    config,            \* the router's variant and its immutable fields
    queue_order,       \* iteration order of the running_queue HashMap
    tree,              \* Tree behind its mutex
    running_queue,     \* worker -> requests in flight
    processed_queue,   \* worker -> requests dispatched
    fairness_counter,  \* user -> (worker -> credit)
    current_index,     \* RoundRobin's AtomicUsize
    lock,              \* mutex -> owner (Free: not held)
    ctor_i,            \* bootstrap inserts Router::new has done
    evictor_pc,        \* position of the eviction thread
    pc,                \* position of each dispatch
    text,              \* its request text
    user_id,           \* its user id (fairness mode)
    is_stream,         \* its stream flag
    worker_url,        \* the worker its policy step selected
    sorted_workers,    \* its ranking (fairness mode)
    outcome,           \* how it ended
    decs,              \* how often it has executed the completion decrement
    forwarded,         \* the bytes forwarded so far of its running stream
    nchunks,           \* chunks delivered so far, over all streams
    streak,            \* per user: the selections in a row of one worker
    selections         \* the workers selected so far, in the order selected

routervars == <<config, queue_order>>
statevars == <<tree, running_queue, processed_queue, fairness_counter, current_index>>
threadvars == <<lock, ctor_i, evictor_pc>>
reqvars == <<pc, text, user_id, is_stream, worker_url, sorted_workers, outcome>>
ghostvars == <<decs, forwarded, nchunks, streak, selections>>
vars == <<routervars, statevars, threadvars, reqvars, ghostvars>>

worker_urls == config.worker_urls

\* lines 207-219: the first worker of the list, none for the empty list
get_first == IF worker_urls = <<>> THEN NoWorker ELSE worker_urls[1]
WorkerSet == Range(worker_urls)
IsCacheAware == config.policy = "CacheAware"
Constructed == ctor_i = Len(worker_urls)

(***************************************************************************)
(* Router::new: the maps start at 0 for every worker, the fairness matrix  *)
(* empty, the eviction thread spawned; the bootstrap inserts follow.       *)
(***************************************************************************)
InitWith(configs) ==
    /\ config \in configs
    /\ queue_order \in Perms(Range(config.worker_urls))
    /\ tree = {}
    /\ running_queue = [w \in Range(config.worker_urls) |-> 0]
    /\ processed_queue = [w \in Range(config.worker_urls) |-> 0]
    /\ fairness_counter = [u \in {} |-> 0]
    /\ current_index = 0
    /\ lock = [l \in LockNames |-> Free]
    /\ ctor_i = 0
    /\ evictor_pc = "sleep"
    /\ pc = [r \in Reqs |-> "idle"]
    /\ text = [r \in Reqs |-> <<>>]
    /\ user_id = [r \in Reqs |-> NoUser]
    /\ is_stream = [r \in Reqs |-> FALSE]
    /\ worker_url = [r \in Reqs |-> NoWorker]
    /\ sorted_workers = [r \in Reqs |-> <<>>]
    /\ outcome = [r \in Reqs |-> "none"]
    /\ decs = [r \in Reqs |-> 0]
    /\ forwarded = [r \in Reqs |-> <<>>]
    /\ nchunks = 0
    /\ streak = [u \in Users |-> NoStreak]
    /\ selections = <<>>

\* for url in &worker_urls { tree.lock().unwrap().insert("", url) }
CtorInsert ==
    /\ ctor_i < Len(worker_urls)
    /\ IsCacheAware
    /\ lock["tree"] = Free
    /\ tree' = TreeInsert(tree, <<>>, worker_urls[ctor_i + 1])
    /\ ctor_i' = ctor_i + 1
    /\ UNCHANGED <<routervars, running_queue, processed_queue, fairness_counter,
                   current_index, lock, evictor_pc, reqvars, ghostvars>>

\* the other variants have nothing to bootstrap
CtorReturn ==
    /\ ctor_i < Len(worker_urls)
    /\ ~IsCacheAware
    /\ ctor_i' = Len(worker_urls)
    /\ UNCHANGED <<routervars, statevars, lock, evictor_pc, reqvars, ghostvars>>

(***************************************************************************)
(* The eviction thread (spawned for a CacheAware router only).             *)
(***************************************************************************)
\* a variant that takes the processed queue before the tree
EvictorLocksReversed == <<"processed", "tree">>

\* the mutexes the thread takes, in the order it takes them
EvictorLocks == <<"tree", "processed">>

\* tree_clone.lock(); evict_tenant_data(max_tree_size)
EvictorLockTree ==
    /\ IsCacheAware
    /\ evictor_pc = "sleep"
    /\ lock[EvictorLocks[1]] = Free
    /\ lock' = [lock EXCEPT ![EvictorLocks[1]] = Evictor]
    /\ tree' \in EvictOutcomes(tree, config.max_tree_size)
    /\ evictor_pc' = "lock_processed"
    /\ UNCHANGED <<routervars, running_queue, processed_queue, fairness_counter,
                   current_index, ctor_i, reqvars, ghostvars>>

\* processed_queue_clone.lock(); println!; both guards dropped at the end of
\* the loop body
EvictorLockProcessed ==
    /\ evictor_pc = "lock_processed"
    /\ lock[EvictorLocks[2]] = Free
    /\ lock' = [lock EXCEPT ![EvictorLocks[1]] = Free]
    /\ evictor_pc' = "sleep"
    /\ UNCHANGED <<routervars, statevars, ctor_i, reqvars, ghostvars>>

(***************************************************************************)
(* Router::dispatch.                                                       *)
(***************************************************************************)
\* the positions of a dispatch inside its policy step
PolicyStates == {"lock_running", "lock_fairness", "policy", "fair_loop", "lock_processed"}

\* the sum of a counter map over the workers S
RECURSIVE SumOver(_, _)
SumOver(f, S) ==
    IF S = {} THEN 0
    ELSE LET x == CHOOSE y \in S : TRUE IN f[x] + SumOver(f, S \ {x})

\* the dispatch calls are numbered in the order in which they start
Arrives(r) ==
    /\ Constructed
    /\ pc[r] = "idle"
    /\ \A q \in 1..(r - 1) : pc[q] # "idle"

\* lines 228, 272, 404-406: what a dispatch keeps of a body that parsed: the
\* text (read by the CacheAware policy only), the user id (read in fairness
\* mode only) and the stream flag
Parsed(r, body, route) ==
    /\ body.valid
    /\ text' = [text EXCEPT ![r] =
           IF IsCacheAware THEN get_text_from_request(body, route) ELSE <<>>]
    /\ user_id' = [user_id EXCEPT ![r] =
           IF IsCacheAware /\ config.enable_fairness
           THEN get_uid_from_body(body) ELSE NoUser]
    /\ is_stream' = [is_stream EXCEPT ![r] = IsStream(body)]

\* lines 109, 228: a body that is not JSON panics in the unwrap of
\* get_text_from_request, whatever the policy
BadRequest(r, body, route) ==
    /\ Arrives(r)
    /\ ~body.valid
    /\ pc' = [pc EXCEPT ![r] = "panicked"]
    /\ outcome' = [outcome EXCEPT ![r] = "bad_json"]
    /\ UNCHANGED <<routervars, statevars, threadvars, text, user_id, is_stream,
                   worker_url, sorted_workers, ghostvars>>

\* a variant that stores the index as it was
SameIndex(x, n) == x

\* line 241: |x| Some((x + 1) % worker_urls.len())
NextIndex(x, n) == (x + 1) % n

\* a variant that returns the updated index
ReturnsUpdated(previous, updated) == updated

\* lines 237-243: fetch_update returns the index as it was before the update
FetchUpdate(previous, updated) == previous

\* lines 228, 237-245: the index is updated atomically, the worker is the one
\* at the index fetch_update returns (positions are counted from 0 in the
\* source, from 1 here)
SelectRoundRobin(r, body, route) ==
    /\ Arrives(r)
    /\ config.policy = "RoundRobin"
    /\ Parsed(r, body, route)
    /\ Len(worker_urls) > 0
    /\ current_index' = NextIndex(current_index, Len(worker_urls))
    /\ LET idx == FetchUpdate(current_index, current_index')
       IN  /\ worker_url' = [worker_url EXCEPT ![r] = worker_urls[idx + 1]]
           /\ selections' = Append(selections, worker_urls[idx + 1])
    /\ pc' = [pc EXCEPT ![r] = "send"]
    /\ UNCHANGED <<routervars, tree, running_queue, processed_queue,
                   fairness_counter, threadvars, sorted_workers, outcome,
                   decs, forwarded, nchunks, streak>>

\* lines 228, 249: rand::random::<usize>() % worker_urls.len()
SelectRandom(r, body, route, i) ==
    /\ Arrives(r)
    /\ config.policy = "Random"
    /\ Parsed(r, body, route)
    /\ i \in 1..Len(worker_urls)
    /\ worker_url' = [worker_url EXCEPT ![r] = worker_urls[i]]
    /\ selections' = Append(selections, worker_urls[i])
    /\ pc' = [pc EXCEPT ![r] = "send"]
    /\ UNCHANGED <<routervars, statevars, threadvars, sorted_workers, outcome,
                   decs, forwarded, nchunks, streak>>

\* lines 228, 264: the CacheAware policy step starts by taking the tree mutex
LockTree(r, body, route) ==
    /\ Arrives(r)
    /\ IsCacheAware
    /\ Parsed(r, body, route)
    /\ lock["tree"] = Free
    /\ lock' = [lock EXCEPT !["tree"] = r]
    /\ pc' = [pc EXCEPT ![r] = "lock_running"]
    /\ UNCHANGED <<routervars, statevars, ctor_i, evictor_pc, worker_url,
                   sorted_workers, outcome, ghostvars>>

\* line 265
LockRunning(r) ==
    /\ pc[r] = "lock_running"
    /\ lock["running"] = Free
    /\ lock' = [lock EXCEPT !["running"] = r]
    /\ pc' = [pc EXCEPT ![r] =
           IF config.enable_fairness THEN "lock_fairness" ELSE "policy"]
    /\ UNCHANGED <<routervars, statevars, ctor_i, evictor_pc, text, user_id,
                   is_stream, worker_url, sorted_workers, outcome, ghostvars>>

\* lines 276-288: a new user's row, every worker at fairness_fill_size
WithUser(fc, u) ==
    IF u \in DOMAIN fc THEN fc
    ELSE [x \in DOMAIN fc \cup {u} |->
             IF x = u THEN [w \in WorkerSet |-> config.fairness_fill_size]
             ELSE fc[x]]

\* lines 290-299: the workers in descending order of their prefix_match_tenant
\* length.  The sort is stable and starts from the iteration order of a fresh
\* HashMap, so workers of equal length come in any order.
Rankings(t, txt) ==
    {s \in Perms(WorkerSet) :
        \A i, j \in DOMAIN s :
            i < j => Len(prefix_match_tenant(t, txt, s[i]))
                         >= Len(prefix_match_tenant(t, txt, s[j]))}

\* lines 274-299
LockFairness(r) ==
    /\ pc[r] = "lock_fairness"
    /\ lock["fairness"] = Free
    /\ lock' = [lock EXCEPT !["fairness"] = r]
    /\ fairness_counter' = WithUser(fairness_counter, user_id[r])
    /\ \E s \in Rankings(tree, text[r]) :
           sorted_workers' = [sorted_workers EXCEPT ![r] = s]
    /\ pc' = [pc EXCEPT ![r] = "fair_loop"]
    /\ UNCHANGED <<routervars, tree, running_queue, processed_queue,
                   current_index, ctor_i, evictor_pc, text, user_id, is_stream,
                   worker_url, outcome, ghostvars>>

\* text.chars().count()
Deduction(r) == Len(text[r])

\* a variant that deducts nothing
NoDeduction(a, b) == a

\* a variant that accepts every worker
HasCreditAlways(count, d) == TRUE

\* a variant that accepts a worker whose credit would drop to zero
HasCreditNonStrict(count, d) == count - d >= 0

\* line 309: count - deduction as i32 > 0
HasCredit(count, d) == count - d > 0

\* i32::saturating_sub
SaturatingSubI32(a, b) ==
    IF a - b < -2147483647 - 1 THEN -2147483647 - 1
    ELSE IF a - b > 2147483647 THEN 2147483647 ELSE a - b

\* lines 305-322: the positions of the ranking whose worker has credit
Qualifying(r) ==
    {i \in DOMAIN sorted_workers[r] :
        HasCredit(fairness_counter[user_id[r]][sorted_workers[r][i]], Deduction(r))}

\* a variant that leaves the count as it is
NotIncremented(queue, w) == queue

\* lines 389-390 and 393-395: *count += 1
Incremented(queue, w) == [queue EXCEPT ![w] = @ + 1]

\* a variant that drops the running-queue guard with the fairness guard
FairnessScopeEndDropsRunning == {"fairness", "running"}

\* the guards dropped where the fairness branch ends (line 366)
FairnessScopeEnd == {"fairness"}

\* lines 305-322, 344-345, 365-366, 388-390: a pass of the loop that finds a
\* worker: its credit is deducted, the fairness guard is dropped, the running
\* count of the selected worker goes up
FairSelect(r) ==
    /\ pc[r] = "fair_loop"
    /\ Qualifying(r) # {}
    /\ LET i == CHOOSE x \in Qualifying(r) : \A y \in Qualifying(r) : x <= y
           w == sorted_workers[r][i]
           u == user_id[r]
       IN  /\ fairness_counter' = [fairness_counter EXCEPT ![u][w] =
                   SaturatingSubI32(fairness_counter[u][w], Deduction(r))]
           /\ worker_url' = [worker_url EXCEPT ![r] = w]
           /\ running_queue' = Incremented(running_queue, w)
           /\ streak' = [streak EXCEPT ![u] =
                   [worker |-> w,
                    d |-> Deduction(r),
                    n |-> IF @.worker = w /\ @.d = Deduction(r) THEN @.n + 1 ELSE 1,
                    lens |-> @.lens \cup {Deduction(r)}]]
           /\ selections' = Append(selections, w)
    /\ lock' = [l \in LockNames |-> IF l \in FairnessScopeEnd THEN Free ELSE lock[l]]
    /\ pc' = [pc EXCEPT ![r] = "lock_processed"]
    /\ UNCHANGED <<routervars, tree, processed_queue, current_index, ctor_i,
                   evictor_pc, text, user_id, is_stream, sorted_workers, outcome,
                   decs, forwarded, nchunks>>

RECURSIVE RefillFrom(_, _)
\* lines 332-342, from the i-th worker of the list on: a worker that has an
\* entry in the row gets fairness_fill_size more
RefillFrom(row, i) ==
    IF i > Len(worker_urls) THEN row
    ELSE LET w == worker_urls[i]
         IN  RefillFrom(IF w \in DOMAIN row
                        THEN [row EXCEPT ![w] = @ + config.fairness_fill_size]
                        ELSE row,
                        i + 1)

\* a variant that resets the credits instead of adding to them
RefillRowReset(row) == [w \in DOMAIN row |-> config.fairness_fill_size]

\* a variant that adds nothing
RefillRowNone(row) == row

\* lines 332-342: every worker of the list gets fairness_fill_size more
RefillRow(row) == RefillFrom(row, 1)

\* lines 324-343: a pass of the loop that finds no worker refills the row of
\* this user, and the loop goes round
FairRefill(r) ==
    /\ pc[r] = "fair_loop"
    /\ Qualifying(r) = {}
    /\ fairness_counter' = [fairness_counter EXCEPT ![user_id[r]] = RefillRow(@)]
    /\ streak' = [streak EXCEPT ![user_id[r]] =
           [@ EXCEPT !.worker = NoWorker, !.n = 0]]
    /\ UNCHANGED <<routervars, tree, running_queue, processed_queue,
                   current_index, threadvars, reqvars, decs, forwarded, nchunks,
                   selections>>

\* a variant that takes the first worker of the map whatever the counts
FirstInQueue == IF queue_order = <<>> THEN worker_urls[1] ELSE queue_order[1]

\* lines 380-384: the first worker of minimal count in the map's iteration
\* order, worker_urls[0] for an empty map (NoWorker: the list is empty as
\* well and the index is out of bounds)
ShortestQueue ==
    IF queue_order = <<>> THEN (IF worker_urls = <<>> THEN NoWorker ELSE worker_urls[1])
    ELSE LET i == CHOOSE x \in DOMAIN queue_order :
                      /\ \A y \in DOMAIN queue_order :
                             running_queue[queue_order[x]] <= running_queue[queue_order[y]]
                      /\ \A y \in 1..(x - 1) :
                             running_queue[queue_order[y]] > running_queue[queue_order[x]]
         IN  queue_order[i]

\* lines 367-377
CacheAwareChoice(txt) ==
    LET m == prefix_match(tree, txt)
    IN  IF RateAbove(Len(m[1]), Len(txt), config.cache_threshold)
        THEN m[2] ELSE get_smallest_tenant(tree)

\* lines 367-390 with fairness disabled: sampled_p decides between the tree
\* and the shortest queue; the running count of the selected worker goes up
SelectPlain(r, sampled_p) ==
    /\ pc[r] = "policy"
    /\ LET w == IF FracLt(sampled_p, config.cache_routing_prob)
                THEN CacheAwareChoice(text[r]) ELSE ShortestQueue
       IN  /\ w \in DOMAIN running_queue
           /\ worker_url' = [worker_url EXCEPT ![r] = w]
           /\ running_queue' = Incremented(running_queue, w)
           /\ selections' = Append(selections, w)
    /\ pc' = [pc EXCEPT ![r] = "lock_processed"]
    /\ UNCHANGED <<routervars, tree, processed_queue, fairness_counter,
                   current_index, threadvars, text, user_id, is_stream,
                   sorted_workers, outcome, decs, forwarded, nchunks, streak>>

\* the mutexes after the thread t has panicked: the guards it held are dropped
\* by the unwinding and leave their mutexes poisoned
AfterPanic(t) == [l \in LockNames |-> IF lock[l] = t THEN Poisoned ELSE lock[l]]

\* lines 241, 249: with no worker the remainder by worker_urls.len() panics
SelectPanics(r, body, route) ==
    /\ Arrives(r)
    /\ config.policy \in {"RoundRobin", "Random"}
    /\ Parsed(r, body, route)
    /\ Len(worker_urls) = 0
    /\ pc' = [pc EXCEPT ![r] = "panicked"]
    /\ outcome' = [outcome EXCEPT ![r] = "no_worker"]
    /\ UNCHANGED <<routervars, statevars, threadvars, worker_url, sorted_workers,
                   ghostvars>>

\* lines 384, 389: with fairness disabled, a choice that has no entry in the
\* running queue (no worker at index 0, or a url the map does not hold)
\* panics in the index or in the unwrap, with the tree and the running queue
\* locked
PlainPanics(r, sampled_p) ==
    /\ pc[r] = "policy"
    /\ LET w == IF FracLt(sampled_p, config.cache_routing_prob)
                THEN CacheAwareChoice(text[r]) ELSE ShortestQueue
       IN  w \notin DOMAIN running_queue
    /\ pc' = [pc EXCEPT ![r] = "panicked"]
    /\ outcome' = [outcome EXCEPT ![r] = "no_worker"]
    /\ lock' = AfterPanic(r)
    /\ UNCHANGED <<routervars, statevars, ctor_i, evictor_pc, text, user_id,
                   is_stream, worker_url, sorted_workers, ghostvars>>

\* line 264: tree.lock().unwrap() on a poisoned mutex panics
LockTreePoisoned(r, body, route) ==
    /\ Arrives(r)
    /\ IsCacheAware
    /\ Parsed(r, body, route)
    /\ lock["tree"] = Poisoned
    /\ pc' = [pc EXCEPT ![r] = "panicked"]
    /\ outcome' = [outcome EXCEPT ![r] = "poisoned"]
    /\ UNCHANGED <<routervars, statevars, threadvars, worker_url, sorted_workers,
                   ghostvars>>

\* line 175: tree_clone.lock().unwrap() on a poisoned mutex ends the eviction
\* thread
EvictorPoisoned ==
    /\ IsCacheAware
    /\ evictor_pc = "sleep"
    /\ lock[EvictorLocks[1]] = Poisoned
    /\ evictor_pc' = "panicked"
    /\ UNCHANGED <<routervars, statevars, lock, ctor_i, reqvars, ghostvars>>

\* a variant that keeps the running-queue guard alive past the policy step
DispatchScopeEndKeepsRunning == {"tree", "processed"}

\* the guards dropped where the CacheAware arm ends (line 401)
DispatchScopeEnd == {"tree", "running", "processed"}

\* lines 392-401: the processed count goes up under its own mutex, the text
\* is inserted for the selected worker, every guard is dropped.  The text,
\* the user id and the ranking are not read after the policy step.
LockProcessed(r) ==
    /\ pc[r] = "lock_processed"
    /\ lock["processed"] = Free
    /\ processed_queue' = Incremented(processed_queue, worker_url[r])
    /\ tree' = TreeInsert(tree, text[r], worker_url[r])
    /\ lock' = [l \in LockNames |-> IF l \in DispatchScopeEnd THEN Free ELSE lock[l]]
    /\ pc' = [pc EXCEPT ![r] = "send"]
    /\ text' = [text EXCEPT ![r] = <<>>]
    /\ user_id' = [user_id EXCEPT ![r] = NoUser]
    /\ sorted_workers' = [sorted_workers EXCEPT ![r] = <<>>]
    /\ UNCHANGED <<routervars, running_queue, fairness_counter, current_index,
                   ctor_i, evictor_pc, is_stream, worker_url, outcome, ghostvars>>

\* the positions of a dispatch that has yet to select its worker
BeforeSelection == {"idle", "lock_running", "lock_fairness", "policy", "fair_loop"}

\* line 221: the handler is called again: a dispatch that has selected its
\* worker makes room for a new call (its I/O is not followed), as long as
\* the selections made and still to make stay below MaxCalls
NextCall(r) ==
    /\ pc[r] = "send"
    /\ Len(selections) + Cardinality({q \in Reqs : pc[q] \in BeforeSelection})
         < MaxCalls
    /\ pc' = [pc EXCEPT ![r] = "idle"]
    /\ worker_url' = [worker_url EXCEPT ![r] = NoWorker]
    /\ is_stream' = [is_stream EXCEPT ![r] = FALSE]
    /\ UNCHANGED <<routervars, statevars, threadvars, text, user_id,
                   sorted_workers, outcome, ghostvars>>

\* lines 408-423: the upstream send; on failure the handler returns the
\* internal-server-error response at once
Send(r, ok) ==
    /\ pc[r] = "send"
    /\ IF ok
       THEN /\ pc' = [pc EXCEPT ![r] = IF is_stream[r] THEN "streaming" ELSE "read"]
            /\ UNCHANGED outcome
       ELSE /\ pc' = [pc EXCEPT ![r] = "done"]
            /\ outcome' = [outcome EXCEPT ![r] = "send_failed"]
    /\ UNCHANGED <<routervars, statevars, threadvars, text, user_id, is_stream,
                   worker_url, sorted_workers, ghostvars>>

\* lines 430-433: the whole body is read (or the read fails)
ReadBody(r, ok) ==
    /\ pc[r] = "read"
    /\ outcome' = [outcome EXCEPT ![r] = IF ok THEN "body" ELSE "body_failed"]
    /\ pc' = [pc EXCEPT ![r] = IF IsCacheAware THEN "dec" ELSE "done"]
    /\ UNCHANGED <<routervars, statevars, threadvars, text, user_id, is_stream,
                   worker_url, sorted_workers, ghostvars>>

\* usize::saturating_sub(1)
SaturatingDec(count) == IF count = 0 THEN 0 ELSE count - 1

\* lines 436-441 and 463-465: the running count of the worker goes down under
\* the running-queue mutex, taken and dropped here
Decrement(r) ==
    /\ pc[r] = "dec"
    /\ lock["running"] = Free
    /\ running_queue' = [running_queue EXCEPT ![worker_url[r]] = SaturatingDec(@)]
    /\ decs' = [decs EXCEPT ![r] = @ + 1]
    /\ pc' = [pc EXCEPT ![r] = IF is_stream[r] THEN "streaming" ELSE "done"]
    /\ UNCHANGED <<routervars, tree, processed_queue, fairness_counter,
                   current_index, threadvars, text, user_id, is_stream, worker_url,
                   sorted_workers, outcome, forwarded, nchunks, streak, selections>>

\* lines 449-470 (CacheAware) and 472-476: the upstream delivers a chunk, which
\* is forwarded; the CacheAware router looks for the sentinel in it
StreamChunk(r, chunk) ==
    /\ pc[r] = "streaming"
    /\ nchunks < MaxChunks
    /\ nchunks' = nchunks + 1
    /\ forwarded' = [forwarded EXCEPT ![r] = @ \o chunk]
    /\ pc' = [pc EXCEPT ![r] =
           IF IsCacheAware /\ ContainsSentinel(chunk) THEN "dec" ELSE "streaming"]
    /\ UNCHANGED <<routervars, statevars, threadvars, text, user_id, is_stream,
                   worker_url, sorted_workers, outcome, decs, streak,
                   selections>>

\* the upstream ends the stream
StreamEnd(r) ==
    /\ pc[r] = "streaming"
    /\ pc' = [pc EXCEPT ![r] = "done"]
    /\ outcome' = [outcome EXCEPT ![r] = "stream_end"]
    /\ forwarded' = [forwarded EXCEPT ![r] = <<>>]
    /\ UNCHANGED <<routervars, statevars, threadvars, text, user_id, is_stream,
                   worker_url, sorted_workers, decs, nchunks, streak,
                   selections>>

\* lines 453-457: reading the upstream fails; the CacheAware router's inspect
\* closure unwraps the error and panics, the others forward the error
StreamError(r) ==
    /\ pc[r] = "streaming"
    /\ pc' = [pc EXCEPT ![r] = IF IsCacheAware THEN "panicked" ELSE "done"]
    /\ outcome' = [outcome EXCEPT ![r] = "stream_error"]
    /\ forwarded' = [forwarded EXCEPT ![r] = <<>>]
    /\ UNCHANGED <<routervars, statevars, threadvars, text, user_id, is_stream,
                   worker_url, sorted_workers, decs, nchunks, streak,
                   selections>>

\* the client goes away and the response stream is dropped
ClientDrop(r) ==
    /\ pc[r] = "streaming"
    /\ pc' = [pc EXCEPT ![r] = "done"]
    /\ outcome' = [outcome EXCEPT ![r] = "dropped"]
    /\ forwarded' = [forwarded EXCEPT ![r] = <<>>]
    /\ UNCHANGED <<routervars, statevars, threadvars, text, user_id, is_stream,
                   worker_url, sorted_workers, decs, nchunks, streak,
                   selections>>

(***************************************************************************)
(* The system: a router of any variant over two workers, MaxReq dispatch   *)
(* calls, the constructor and the eviction thread.                         *)
(***************************************************************************)
Init == InitWith(CacheAwareConfigs({<<"A", "B">>}) \cup SimpleConfigs({<<"A", "B">>}))

Next ==
    \/ CtorInsert
    \/ CtorReturn
    \/ EvictorLockTree
    \/ EvictorLockProcessed
    \/ \E r \in Reqs, body \in Bodies, route \in Routes : BadRequest(r, body, route)
    \/ \E r \in Reqs, body \in Bodies, route \in Routes : SelectRoundRobin(r, body, route)
    \/ \E r \in Reqs, body \in Bodies, route \in Routes, i \in 1..Len(worker_urls) :
           SelectRandom(r, body, route, i)
    \/ \E r \in Reqs, body \in Bodies, route \in Routes : LockTree(r, body, route)
    \/ \E r \in Reqs : LockRunning(r)
    \/ \E r \in Reqs : LockFairness(r)
    \/ \E r \in Reqs : FairSelect(r)
    \/ \E r \in Reqs : FairRefill(r)
    \/ \E r \in Reqs, p \in SampledPs : SelectPlain(r, p)
    \/ \E r \in Reqs : LockProcessed(r)
    \/ \E r \in Reqs, ok \in BOOLEAN : Send(r, ok)
    \/ \E r \in Reqs, ok \in BOOLEAN : ReadBody(r, ok)
    \/ \E r \in Reqs : Decrement(r)
    \/ \E r \in Reqs, chunk \in Chunks : StreamChunk(r, chunk)
    \/ \E r \in Reqs : StreamEnd(r)
    \/ \E r \in Reqs : StreamError(r)
    \/ \E r \in Reqs : ClientDrop(r)

Spec == Init /\ [][Next]_vars

(***************************************************************************)
(* The policy steps of MaxReq dispatches on a CacheAware router, with the  *)
(* constructor and the eviction thread; the dispatches are not followed    *)
(* past their policy step.                                                 *)
(***************************************************************************)
InitCacheAware == InitWith(CacheAwareConfigs({<<"A", "B">>}))

NextPolicy ==
    \/ CtorInsert
    \/ EvictorLockTree
    \/ EvictorLockProcessed
    \/ \E r \in Reqs, body \in PolicyBodies : LockTree(r, body, "generate")
    \/ \E r \in Reqs : LockRunning(r)
    \/ \E r \in Reqs : LockFairness(r)
    \/ \E r \in Reqs : FairSelect(r)
    \/ \E r \in Reqs : FairRefill(r)
    \/ \E r \in Reqs, p \in SampledPs : SelectPlain(r, p)
    \/ \E r \in Reqs : LockProcessed(r)

SpecPolicy == InitCacheAware /\ [][NextPolicy]_vars

(***************************************************************************)
(* The threads of a CacheAware router: MaxReq whole dispatches of requests *)
(* with one text, the constructor and the eviction thread; a chunk of a    *)
(* response stream is the sentinel.                                        *)
(***************************************************************************)
NextThreads ==
    \/ CtorInsert
    \/ EvictorLockTree
    \/ EvictorLockProcessed
    \/ \E r \in Reqs, body \in ThreadBodies : LockTree(r, body, "generate")
    \/ \E r \in Reqs : LockRunning(r)
    \/ \E r \in Reqs : LockFairness(r)
    \/ \E r \in Reqs : FairSelect(r)
    \/ \E r \in Reqs : FairRefill(r)
    \/ \E r \in Reqs, p \in SampledPs : SelectPlain(r, p)
    \/ \E r \in Reqs : LockProcessed(r)
    \/ \E r \in Reqs, ok \in BOOLEAN : Send(r, ok)
    \/ \E r \in Reqs, ok \in BOOLEAN : ReadBody(r, ok)
    \/ \E r \in Reqs : Decrement(r)
    \/ \E r \in Reqs : StreamChunk(r, Sentinel)
    \/ \E r \in Reqs : StreamEnd(r)
    \/ \E r \in Reqs : StreamError(r)
    \/ \E r \in Reqs : ClientDrop(r)

SpecThreads == InitCacheAware /\ [][NextThreads]_vars

(***************************************************************************)
(* The policy steps of MaxReq dispatches on a CacheAware router in         *)
(* fairness mode, for every fairness_fill_size from 1 to FillSize.  A      *)
(* dispatch is a running thread: a step of its loop that can be taken is   *)
(* taken, and so is the step that ends the policy step.                    *)
(***************************************************************************)
FairnessConfigs(lists) ==
    [policy : {"CacheAware"}, worker_urls : lists,
     cache_threshold : {<<1, 2>>}, cache_routing_prob : {<<1, 2>>},
     max_tree_size : {TreeSize}, enable_fairness : {TRUE},
     fairness_fill_size : 1..FillSize]

\* bodies for the fairness loop: every text length, with and without a user
FairnessBodies ==
    [valid : {TRUE}, text : Prompts, user : {NoUser, "u1"}, stream : {FALSE}]

InitFairness == InitWith(FairnessConfigs({<<"A", "B">>}))

NextFairness ==
    \/ CtorInsert
    \/ EvictorLockTree
    \/ EvictorLockProcessed
    \/ \E r \in Reqs, body \in FairnessBodies : LockTree(r, body, "generate")
    \/ \E r \in Reqs : LockRunning(r)
    \/ \E r \in Reqs : LockFairness(r)
    \/ \E r \in Reqs : FairSelect(r)
    \/ \E r \in Reqs : FairRefill(r)
    \/ \E r \in Reqs : LockProcessed(r)

DispatchRuns ==
    \A r \in Reqs :
        /\ WF_vars(FairSelect(r))
        /\ WF_vars(FairRefill(r))
        /\ WF_vars(LockProcessed(r))

SpecFairness == InitFairness /\ [][NextFairness]_vars /\ DispatchRuns

(***************************************************************************)
(* A series of MaxCalls dispatch calls on a CacheAware router in fairness  *)
(* mode, at most MaxReq of them at a time, with texts of up to             *)
(* MaxSeriesLen characters; the calls are followed through their policy    *)
(* step, and the tree only grows (the eviction thread sleeps).             *)
(***************************************************************************)
SeriesBodies ==
    [valid : {TRUE}, text : {[i \in 1..k |-> "a"] : k \in 0..MaxSeriesLen},
     user : {NoUser}, stream : {FALSE}]

NextSeries ==
    \/ CtorInsert
    \/ \E r \in Reqs, body \in SeriesBodies : LockTree(r, body, "generate")
    \/ \E r \in Reqs : LockRunning(r)
    \/ \E r \in Reqs : LockFairness(r)
    \/ \E r \in Reqs : FairSelect(r)
    \/ \E r \in Reqs : FairRefill(r)
    \/ \E r \in Reqs : LockProcessed(r)
    \/ \E r \in Reqs : NextCall(r)

SpecSeries == InitFairness /\ [][NextSeries]_vars

(***************************************************************************)
(* The policy steps of MaxReq dispatches on a CacheAware router with       *)
(* fairness disabled, for the cache thresholds 0, 1/2 and 1, with the      *)
(* constructor and the eviction thread.                                    *)
(***************************************************************************)
PlainConfigs(lists) ==
    [policy : {"CacheAware"}, worker_urls : lists,
     cache_threshold : {<<0, 1>>, <<1, 2>>, <<1, 1>>},
     cache_routing_prob : {<<1, 2>>},
     max_tree_size : {TreeSize}, enable_fairness : {FALSE},
     fairness_fill_size : {FillSize}]

\* bodies for the plain policy: texts that branch in the tree
PlainBodies ==
    [valid : {TRUE}, text : PromptsOver({"a", "b"}), user : {NoUser},
     stream : {FALSE}]

InitPlain == InitWith(PlainConfigs({<<"A", "B">>}))

NextPlain ==
    \/ CtorInsert
    \/ EvictorLockTree
    \/ EvictorLockProcessed
    \/ \E r \in Reqs, body \in PlainBodies : LockTree(r, body, "generate")
    \/ \E r \in Reqs : LockRunning(r)
    \/ \E r \in Reqs, p \in SampledPs : SelectPlain(r, p)
    \/ \E r \in Reqs : LockProcessed(r)

SpecPlain == InitPlain /\ [][NextPlain]_vars

(***************************************************************************)
(* A series of MaxCalls dispatch calls on a RoundRobin router over one,    *)
(* two or three workers, at most MaxReq of them at a time; a call whose    *)
(* body is not JSON panics before it reaches the index.                    *)
(***************************************************************************)
RoundRobinConfigs(lists) ==
    [policy : {"RoundRobin"}, worker_urls : lists,
     cache_threshold : {<<0, 1>>}, cache_routing_prob : {<<0, 1>>},
     max_tree_size : {TreeSize}, enable_fairness : {FALSE},
     fairness_fill_size : {FillSize}]

InitRoundRobin ==
    InitWith(RoundRobinConfigs({<<"A">>, <<"A", "B">>, <<"A", "B", "C">>}))

NextRoundRobin ==
    \/ CtorReturn
    \/ \E r \in Reqs, body \in Bodies, route \in Routes : BadRequest(r, body, route)
    \/ \E r \in Reqs, body \in Bodies, route \in Routes : SelectRoundRobin(r, body, route)
    \/ \E r \in Reqs : NextCall(r)

SpecRoundRobin == InitRoundRobin /\ [][NextRoundRobin]_vars

(***************************************************************************)
(* A router of any variant constructed with the empty worker list, MaxReq  *)
(* dispatch calls and the eviction thread.                                 *)
(***************************************************************************)
InitEmpty == InitWith(CacheAwareConfigs({<<>>}) \cup SimpleConfigs({<<>>}))

NextEmpty ==
    \/ EvictorLockTree
    \/ EvictorLockProcessed
    \/ EvictorPoisoned
    \/ \E r \in Reqs, body \in Bodies, route \in Routes : BadRequest(r, body, route)
    \/ \E r \in Reqs, body \in Bodies, route \in Routes : SelectPanics(r, body, route)
    \/ \E r \in Reqs, body \in Bodies, route \in Routes : LockTree(r, body, route)
    \/ \E r \in Reqs, body \in Bodies, route \in Routes : LockTreePoisoned(r, body, route)
    \/ \E r \in Reqs : LockRunning(r)
    \/ \E r \in Reqs : LockFairness(r)
    \/ \E r \in Reqs : FairRefill(r)
    \/ \E r \in Reqs, p \in SampledPs : PlainPanics(r, p)

SpecEmpty == InitEmpty /\ [][NextEmpty]_vars

(***************************************************************************)
(* Notions the properties share.                                           *)
(***************************************************************************)
\* no dispatch is inside its policy step
NoPolicyStep == \A r \in Reqs : pc[r] \notin PolicyStates

\* a dispatch doing upstream or downstream I/O
IOStates == {"send", "read", "streaming"}

Terminated(r) == pc[r] \in {"done", "panicked"}

\* the dispatches that are past their policy step and whose response has not
\* completed: a buffered one until its completion decrement is done, a
\* streaming one until the forwarded bytes hold the sentinel and the
\* decrement it triggers is done, or the stream has ended
InFlight ==
    {r \in Reqs :
        \/ pc[r] \in {"send", "read", "dec"}
        \/ pc[r] = "streaming" /\ ~ContainsSentinel(forwarded[r])}

\* the dispatches whose policy step has selected worker w
SelectedBy(w) == {r \in Reqs : worker_url[r] = w}

Held(t) == {l \in LockNames : lock[l] = t}

(***************************************************************************)
(* C1 (refuted by the code).  On a CacheAware router, whenever no dispatch *)
(* is inside its policy step, the sum of running[w] over all workers       *)
(* equals the number of requests dispatched and not yet completed.         *)
(***************************************************************************)
C1_RunningBalance ==
    (IsCacheAware /\ NoPolicyStep)
        => SumOver(running_queue, WorkerSet) = Cardinality(InFlight)

(***************************************************************************)
(* C2 (refuted by the code).  A streaming request on a CacheAware router   *)
(* executes the completion decrement of running[w] at most once, however   *)
(* many chunks of its stream hold the sentinel.                            *)
(***************************************************************************)
C2_DecrementOnce ==
    \A r \in Reqs : (IsCacheAware /\ is_stream[r]) => decs[r] <= 1

(***************************************************************************)
(* C3 (refuted by the code).  When the upstream send of a dispatch on a    *)
(* CacheAware router fails, the dispatch ends with the internal-server-    *)
(* error response and has decremented running[w].                          *)
(***************************************************************************)
C3_SendFailureDecrements ==
    \A r \in Reqs :
        (IsCacheAware /\ outcome[r] = "send_failed")
            => (pc[r] = "done" /\ decs[r] = 1)

(***************************************************************************)
(* C4 (refuted by the code).  A streaming request on a CacheAware router   *)
(* whose stream has terminated (normal end, upstream read error, client    *)
(* drop) has decremented running[w].                                       *)
(***************************************************************************)
C4_StreamTerminationDecrements ==
    \A r \in Reqs :
        (/\ IsCacheAware
         /\ is_stream[r]
         /\ Terminated(r)
         /\ outcome[r] \in {"stream_end", "stream_error", "dropped"})
            => decs[r] >= 1

(***************************************************************************)
(* C5 (refuted by the code).  A streaming request on a CacheAware router   *)
(* has decremented running[w] once the sentinel occurs anywhere in the     *)
(* concatenation of the bytes forwarded, also across a chunk boundary.     *)
(***************************************************************************)
C5_SentinelAnywhere ==
    \A r \in Reqs :
        (IsCacheAware /\ pc[r] = "streaming" /\ ContainsSentinel(forwarded[r]))
            => decs[r] >= 1

(***************************************************************************)
(* C6.  On a CacheAware router, whenever no dispatch is inside its policy  *)
(* step, processed[w] is the number of dispatches whose policy step        *)
(* selected w, for every worker w; and no step decreases processed[w].     *)
(***************************************************************************)
C6_ProcessedCounts ==
    /\ [](\A w \in WorkerSet :
            (IsCacheAware /\ NoPolicyStep)
                => processed_queue[w] = Cardinality(SelectedBy(w)))
    /\ [][\A w \in WorkerSet : processed_queue'[w] >= processed_queue[w]]_vars

\* two dispatches have selected the same worker
C6_Witness ==
    /\ IsCacheAware
    /\ NoPolicyStep
    /\ \E w \in WorkerSet : processed_queue[w] = 2 /\ Cardinality(SelectedBy(w)) = 2

(***************************************************************************)
(* C7.  A dispatch that sends the upstream request, reads the upstream     *)
(* response or streams to the client holds none of the four mutexes, and   *)
(* neither does one that waits for the running-queue mutex to do its       *)
(* completion decrement, or one that has ended.                            *)
(***************************************************************************)
C7_NoLockAcrossIO ==
    \A r \in Reqs :
        (pc[r] \in IOStates \cup {"dec", "done", "panicked"}) => Held(r) = {}

\* a fairness-mode dispatch (it took all four mutexes) streams on after its
\* completion decrement, while another dispatch is inside its policy step
C7_Witness ==
    /\ IsCacheAware
    /\ config.enable_fairness
    /\ \E r, q \in Reqs :
        /\ pc[r] = "streaming"
        /\ decs[r] = 1
        /\ pc[q] = "fair_loop"
        /\ Held(q) = {"tree", "running", "fairness"}

(***************************************************************************)
(* C8.  Every thread takes the mutexes in the order tree, running-queue,   *)
(* fairness, processed-queue: the mutex a thread waits for comes after     *)
(* every mutex it holds; and no set of threads waits in a cycle.           *)
(***************************************************************************)
LockRank(l) ==
    CASE l = "tree" -> 1
      [] l = "running" -> 2
      [] l = "fairness" -> 3
      [] l = "processed" -> 4

NoLock == "none"

Threads == Reqs \cup {Evictor}

\* the mutex a thread is about to take (NoLock: none)
Wanted(t) ==
    IF t = Evictor
    THEN IF evictor_pc = "lock_processed" THEN EvictorLocks[2] ELSE NoLock
    ELSE CASE pc[t] = "lock_running" -> "running"
           [] pc[t] = "lock_fairness" -> "fairness"
           [] pc[t] = "lock_processed" -> "processed"
           [] pc[t] = "dec" -> "running"
           [] OTHER -> NoLock

Blocked(t) == Wanted(t) # NoLock /\ lock[Wanted(t)] # Free

C8_LockOrder ==
    /\ \A t \in Threads : \A l \in Held(t) :
           Wanted(t) # NoLock => LockRank(l) < LockRank(Wanted(t))
    /\ \A S \in SUBSET Threads :
           S # {} => \E t \in S : ~(Blocked(t) /\ lock[Wanted(t)] \in S)

\* a dispatch waits for the running queue to do its completion decrement,
\* behind a dispatch that holds it in its policy step and is about to take
\* the processed queue
C8_Witness ==
    \E r, q \in Reqs :
        /\ pc[r] = "lock_processed"
        /\ Held(r) = {"tree", "running"}
        /\ pc[q] = "dec"
        /\ Blocked(q)

(***************************************************************************)
(* C9.  In fairness mode, with d the character count of the text, a        *)
(* selection picks the first worker of the ranking (descending             *)
(* prefix_match_tenant length) whose credit for the user has               *)
(* credit - d > 0: every worker ranked before it has credit - d <= 0; the  *)
(* selected worker's credit becomes credit - d and no other credit of any  *)
(* row changes.                                                            *)
(***************************************************************************)
C9_FairSelection ==
    [][\A r \in Reqs :
        (pc[r] = "fair_loop" /\ pc'[r] = "lock_processed") =>
            LET s == sorted_workers[r]
                u == user_id[r]
                d == Len(text[r])
                w == worker_url'[r]
                row == fairness_counter[u]
            IN  /\ \A i, j \in DOMAIN s :
                       i < j => Len(prefix_match_tenant(tree, text[r], s[i]))
                                    >= Len(prefix_match_tenant(tree, text[r], s[j]))
                /\ \E i \in DOMAIN s :
                       /\ s[i] = w
                       /\ row[w] - d > 0
                       /\ \A j \in 1..(i - 1) : row[s[j]] - d <= 0
                /\ fairness_counter'[u][w] = row[w] - d
                /\ \A v \in WorkerSet \ {w} : fairness_counter'[u][v] = row[v]
                /\ DOMAIN fairness_counter' = DOMAIN fairness_counter
                /\ \A x \in DOMAIN fairness_counter \ {u} :
                       fairness_counter'[x] = fairness_counter[x]
      ]_vars

\* a selection has passed over the first-ranked worker, which strictly leads
\* the ranking and lacks the credit, and has taken the second
C9_Witness ==
    /\ IsCacheAware
    /\ config.enable_fairness
    /\ \E r \in Reqs :
        /\ pc[r] = "lock_processed"
        /\ Len(text[r]) > 0
        /\ Len(sorted_workers[r]) = 2
        /\ worker_url[r] = sorted_workers[r][2]
        /\ fairness_counter[user_id[r]][sorted_workers[r][1]] - Len(text[r]) <= 0
        /\ Len(prefix_match_tenant(tree, text[r], sorted_workers[r][1]))
               > Len(prefix_match_tenant(tree, text[r], sorted_workers[r][2]))

(***************************************************************************)
(* C10.  In fairness mode a credit goes up only in a refill, which happens *)
(* only when no worker of the requesting user has credit - d > 0; the      *)
(* refill adds fairness_fill_size to the credit of every worker of that    *)
(* user's row and changes no other row.  A row is created when its user is *)
(* first seen, with every worker at fairness_fill_size, and creating it    *)
(* changes no other row.                                                   *)
(***************************************************************************)
C10_Refill ==
    [][/\ \A r \in Reqs :
            (/\ pc[r] = "fair_loop"
             /\ pc'[r] = "fair_loop"
             /\ fairness_counter' # fairness_counter) =>
                LET u == user_id[r]
                    d == Len(text[r])
                    row == fairness_counter[u]
                IN  /\ \A w \in WorkerSet : row[w] - d <= 0
                    /\ \A w \in WorkerSet :
                           fairness_counter'[u][w] = row[w] + config.fairness_fill_size
                    /\ DOMAIN fairness_counter' = DOMAIN fairness_counter
                    /\ \A x \in DOMAIN fairness_counter \ {u} :
                           fairness_counter'[x] = fairness_counter[x]
       /\ \A u \in DOMAIN fairness_counter : \A w \in WorkerSet :
            fairness_counter'[u][w] > fairness_counter[u][w] =>
                \E r \in Reqs :
                    /\ pc[r] = "fair_loop"
                    /\ pc'[r] = "fair_loop"
                    /\ user_id[r] = u
                    /\ \A v \in WorkerSet : fairness_counter[u][v] - Len(text[r]) <= 0
       /\ \A u \in DOMAIN fairness_counter' \ DOMAIN fairness_counter :
            /\ fairness_counter'[u] = [w \in WorkerSet |-> config.fairness_fill_size]
            /\ \E r \in Reqs : pc[r] = "lock_fairness" /\ user_id[r] = u
            /\ \A x \in DOMAIN fairness_counter :
                   fairness_counter'[x] = fairness_counter[x]
      ]_vars

\* a row has been refilled (its credits exceed fairness_fill_size) while the
\* row of another user exists
C10_Witness ==
    /\ IsCacheAware
    /\ config.enable_fairness
    /\ \E r \in Reqs :
        /\ pc[r] = "fair_loop"
        /\ \A w \in WorkerSet :
               fairness_counter[user_id[r]][w] > config.fairness_fill_size
        /\ \E x \in DOMAIN fairness_counter : x # user_id[r]

(***************************************************************************)
(* C11.  In fairness mode with two workers and fairness_fill_size >= 1, a  *)
(* dispatch that has entered the refill-and-retry loop leaves it with a    *)
(* selected worker, whatever the text length d (d = 0 and d above          *)
(* fairness_fill_size included), and then holds none of the mutexes.       *)
(***************************************************************************)
C11_LoopTerminates ==
    \A r \in Reqs :
        (pc[r] = "fair_loop")
            ~> (pc[r] = "send" /\ worker_url[r] \in WorkerSet /\ Held(r) = {})

\* a dispatch whose text is longer than fairness_fill_size has left the loop
\* with a worker, after the refills that took
C11_Witness ==
    /\ config.enable_fairness
    /\ \E r \in Reqs :
        /\ pc[r] = "lock_processed"
        /\ Len(text[r]) > config.fairness_fill_size
        /\ worker_url[r] \in WorkerSet
        /\ \A w \in WorkerSet :
               fairness_counter[user_id[r]][w] + Len(text[r])
                   > config.fairness_fill_size

(***************************************************************************)
(* C12 (as stated; refuted).  In fairness mode, for every user, the        *)
(* selections of one worker in a row with one text length d > 0, with no   *)
(* refill of the user's row in between, number at most                     *)
(* ceil(fairness_fill_size / d) + 1.                                       *)
(***************************************************************************)
CeilDiv(a, b) == (a + b - 1) \div b

StreakBound(d) == CeilDiv(config.fairness_fill_size, d) + 1

C12_StreakBound ==
    \A u \in Users :
        streak[u].d > 0 => streak[u].n <= StreakBound(streak[u].d)

(***************************************************************************)
(* C12 (amended).  In fairness mode, for every user all of whose           *)
(* selections so far had the same text length d > 0, the selections of one *)
(* worker in a row, with no refill of the user's row in between, number at *)
(* most ceil(fairness_fill_size / d) + 1.                                  *)
(***************************************************************************)
C12_UniformStreakBound ==
    \A u \in Users :
        (streak[u].d > 0 /\ streak[u].lens = {streak[u].d})
            => streak[u].n <= StreakBound(streak[u].d)

\* a user whose selections all had one text length has had one worker
\* selected twice in a row, after a refill of the row
C12_Witness ==
    \E u \in Users :
        /\ streak[u].d > 0
        /\ streak[u].lens = {streak[u].d}
        /\ streak[u].n = 2
        /\ \E w \in WorkerSet : fairness_counter[u][w] > config.fairness_fill_size

(***************************************************************************)
(* C13 (refuted by the code).  With the random draw fixed, the worker the  *)
(* cache-aware policy selects is a function of the tree, the running       *)
(* counts, the fairness credits and the request: in fairness mode the pass *)
(* that selects would select the same worker under every ranking the sort  *)
(* can produce for this tree and text, and the shortest-queue branch would *)
(* select the same worker under every iteration order of the running       *)
(* queue.                                                                  *)
(***************************************************************************)
\* the worker a selecting pass takes under the ranking s
FirstWithCredit(r, s) ==
    LET q == {i \in DOMAIN s :
                 HasCredit(fairness_counter[user_id[r]][s[i]], Deduction(r))}
    IN  s[CHOOSE x \in q : \A y \in q : x <= y]

\* the worker of minimal running count that comes first in the order o
ShortestQueueIn(o) ==
    LET i == CHOOSE x \in DOMAIN o :
                 /\ \A y \in DOMAIN o : running_queue[o[x]] <= running_queue[o[y]]
                 /\ \A y \in 1..(x - 1) : running_queue[o[y]] > running_queue[o[x]]
    IN  o[i]

C13_Deterministic ==
    \A r \in Reqs :
        /\ (pc[r] = "fair_loop" /\ Qualifying(r) # {}) =>
               \A s \in Rankings(tree, text[r]) :
                   FirstWithCredit(r, s) = FirstWithCredit(r, sorted_workers[r])
        /\ (pc[r] = "policy" /\ WorkerSet # {}) =>
               \A o \in Perms(WorkerSet) : ShortestQueueIn(o) = ShortestQueue

(***************************************************************************)
(* C14.  With fairness disabled, a selection that differs from the         *)
(* shortest-queue choice was drawn with p < cache_routing_prob, and every  *)
(* selection drawn so is the worker prefix_match(t) returns when the       *)
(* matched characters over the characters of t exceed cache_threshold, and *)
(* get_smallest_tenant() otherwise; for the empty t it is                  *)
(* get_smallest_tenant() under every cache_threshold.                      *)
(***************************************************************************)
\* the selection of the step is the one the prefix tree gives for the text
TreeSelects(r) ==
    LET t == text[r]
        m == prefix_match(tree, t)
        w == worker_url'[r]
    IN  /\ (Len(t) > 0 /\ Len(m[1]) * config.cache_threshold[2]
                             > config.cache_threshold[1] * Len(t))
               => w = m[2]
        /\ (Len(t) > 0 /\ Len(m[1]) * config.cache_threshold[2]
                             <= config.cache_threshold[1] * Len(t))
               => w = get_smallest_tenant(tree)
        /\ Len(t) = 0 => w = get_smallest_tenant(tree)

C14_CacheAwareSelection ==
    [][\A r \in Reqs :
        (pc[r] = "policy" /\ pc'[r] = "lock_processed") =>
            /\ \A p \in SampledPs :
                   (FracLt(p, config.cache_routing_prob) /\ SelectPlain(r, p))
                       => TreeSelects(r)
            /\ worker_url'[r] # ShortestQueue => TreeSelects(r)
      ]_vars

\* a dispatch has been sent to the worker that matched more than the
\* threshold of its text, and that worker is not the smallest tenant
C14_Witness ==
    /\ IsCacheAware
    /\ ~config.enable_fairness
    /\ \E r \in Reqs :
        /\ pc[r] = "lock_processed"
        /\ Len(text[r]) > 0
        /\ RateAbove(Len(prefix_match(tree, text[r])[1]), Len(text[r]),
                     config.cache_threshold)
        /\ worker_url[r] = prefix_match(tree, text[r])[2]
        /\ worker_url[r] # get_smallest_tenant(tree)

(***************************************************************************)
(* C15.  With fairness disabled, a selection drawn with                    *)
(* p >= cache_routing_prob takes a worker w with running[w] <= running[v]  *)
(* for every configured worker v, on the counts as they are when the step  *)
(* is taken; the dispatch holds the running-queue mutex before and after   *)
(* the step, and the step increments running[w] and no other count.        *)
(***************************************************************************)
C15_ShortestQueue ==
    [][\A r \in Reqs : \A p \in SampledPs :
        (/\ pc[r] = "policy"
         /\ pc'[r] = "lock_processed"
         /\ ~FracLt(p, config.cache_routing_prob)
         /\ SelectPlain(r, p)) =>
            LET w == worker_url'[r]
            IN  /\ w \in WorkerSet
                /\ \A v \in WorkerSet : running_queue[w] <= running_queue[v]
                /\ lock["running"] = r
                /\ lock'["running"] = r
                /\ running_queue'[w] = running_queue[w] + 1
                /\ \A v \in WorkerSet \ {w} : running_queue'[v] = running_queue[v]
      ]_vars

\* a dispatch has taken the worker with no request running while the other
\* worker has one, against the choice of the prefix tree
C15_Witness ==
    /\ IsCacheAware
    /\ ~config.enable_fairness
    /\ \E r \in Reqs :
        /\ pc[r] = "lock_processed"
        /\ running_queue[worker_url[r]] = 1
        /\ \E v \in WorkerSet \ {worker_url[r]} : running_queue[v] = 1
        /\ worker_url[r] # CacheAwareChoice(text[r])
        /\ worker_url[r] # queue_order[1]

(***************************************************************************)
(* C16.  On a RoundRobin router with N >= 1 workers, the k-th dispatch     *)
(* (k = 0, 1, 2, ..., in the order of the index updates) selects the       *)
(* worker at position k mod N of the configured list.                      *)
(***************************************************************************)
C16_RoundRobinOrder ==
    (config.policy = "RoundRobin" /\ Len(worker_urls) >= 1) =>
        \A k \in 0..(Len(selections) - 1) :
            selections[k + 1] = worker_urls[(k % Len(worker_urls)) + 1]

\* with the workers [A, B], three dispatches have selected A, B, A
C16_Witness ==
    /\ config.policy = "RoundRobin"
    /\ worker_urls = <<"A", "B">>
    /\ selections = <<"A", "B", "A">>

(***************************************************************************)
(* C17.  On a RoundRobin router with N workers, after any K dispatches     *)
(* every worker has been selected floor(K / N) or ceil(K / N) times.       *)
(***************************************************************************)
\* how often the worker w has been selected
TimesSelected(w) == Cardinality({k \in DOMAIN selections : selections[k] = w})

C17_RoundRobinShare ==
    (config.policy = "RoundRobin" /\ Len(worker_urls) >= 1) =>
        \A w \in WorkerSet :
            LET K == Len(selections)
                N == Len(worker_urls)
            IN  \/ TimesSelected(w) = K \div N
                \/ TimesSelected(w) = (K + N - 1) \div N

\* over three workers four dispatches have been made: one worker has been
\* selected twice, the others once
C17_Witness ==
    /\ config.policy = "RoundRobin"
    /\ Len(worker_urls) = 3
    /\ Len(selections) = 4
    /\ \E w \in WorkerSet : TimesSelected(w) = 2
    /\ \E w \in WorkerSet : TimesSelected(w) = 1

(***************************************************************************)
(* C18 (refuted by the code).  On a router constructed with the empty      *)
(* worker list get_first() returns none, and a dispatch with a JSON body   *)
(* does not abort its handler, does not stay in the refill loop with       *)
(* nothing left to change, and when it has ended it has answered with the  *)
(* internal-server-error response.                                         *)
(***************************************************************************)
C18_EmptyListFails ==
    worker_urls = <<>> =>
        /\ get_first = NoWorker
        /\ \A r \in Reqs :
            outcome[r] # "bad_json" =>
                /\ pc[r] # "panicked"
                /\ pc[r] = "fair_loop" =>
                       \/ Qualifying(r) # {}
                       \/ RefillRow(fairness_counter[user_id[r]])
                              # fairness_counter[user_id[r]]
                /\ Terminated(r) => outcome[r] = "send_failed"

(***************************************************************************)
(* C19 (refuted by the code).  A dispatch whose body is not JSON does not  *)
(* fail before routing: it is not aborted, and once it is past its first   *)
(* step it is in the policy step or has a selected worker.                 *)
(***************************************************************************)
C19_BadJsonRoutes ==
    \A r \in Reqs :
        outcome[r] = "bad_json" =>
            /\ pc[r] # "panicked"
            /\ pc[r] \in PolicyStates \/ worker_url[r] \in WorkerSet

(***************************************************************************)
(* C20.  In fairness mode with fairness_fill_size >= 1, every credit of    *)
(* every (user, worker) pair that exists is strictly positive in every     *)
(* reachable state, and a selection leaves the credit at exactly           *)
(* credit - d: the saturating subtraction does not clamp.                  *)
(***************************************************************************)
C20_CreditsPositive ==
    /\ [](\A u \in DOMAIN fairness_counter : \A w \in DOMAIN fairness_counter[u] :
            fairness_counter[u][w] > 0)
    /\ [][\A r \in Reqs :
            (pc[r] = "fair_loop" /\ pc'[r] = "lock_processed") =>
                fairness_counter'[user_id[r]][worker_url'[r]]
                    = fairness_counter[user_id[r]][worker_url'[r]] - Len(text[r])
         ]_vars

\* a selection has brought a credit down to 1, the least a credit can be
C20_Witness ==
    /\ config.enable_fairness
    /\ \E u \in DOMAIN fairness_counter :
        /\ streak[u].d > 0
        /\ streak[u].worker \in WorkerSet
        /\ fairness_counter[u][streak[u].worker] = 1
        /\ \E w \in WorkerSet : fairness_counter[u][w] > config.fairness_fill_size

(***************************************************************************)
(* C21.  On a CacheAware router, whenever the running-queue mutex is free, *)
(* running[w] <= processed[w] for every worker w.                          *)
(***************************************************************************)
C21_RunningAtMostProcessed ==
    (IsCacheAware /\ lock["running"] = Free) =>
        \A w \in WorkerSet : running_queue[w] <= processed_queue[w]

\* with the mutex free, one worker has as many requests running as it was
\* sent, another has completed one, and a dispatch has done its completion
\* decrement
C21_Witness ==
    /\ IsCacheAware
    /\ lock["running"] = Free
    /\ \E w \in WorkerSet :
           running_queue[w] = processed_queue[w] /\ processed_queue[w] >= 1
    /\ \E v \in WorkerSet : running_queue[v] < processed_queue[v]
    /\ \E r \in Reqs : decs[r] >= 1

====
